---------------------------- MODULE Spec2Model ----------------------------
(***************************************************************************)
(* The three tutorial notebooks of doc/source/visualizing, executed cell   *)
(* by cell from top to bottom, each in a kernel of its own:                *)
(*   1  TransferFunctionHelper tutorial   (source lines 1-261)             *)
(*   2  OWLS examples                     (source lines 263-541)           *)
(*   3  Loading data via functions        (source lines 543-821)           *)
(* A behaviour of Spec runs one notebook.  SpecFn applies my_function to   *)
(* grids drawn from a bounded set.  SpecRerun is Spec with the 2D demo     *)
(* cell of notebook 3 run again between cells.                             *)
(*                                                                         *)
(* Numbers.  Coordinates are exact: a length is an integer number of       *)
(* 1/(Unit*Fine) of the domain edge, so every dds/2, (re-le)/dims and      *)
(* linspace step of the model is an exact division.  np.sin and np.exp are *)
(* integer-valued quantisations (SinQ, AttenQ); sums and products of their *)
(* values are exact.  A float of an image is a record [nan, v].            *)
(***************************************************************************)
EXTENDS Integers, Sequences, FiniteSets, TLC

\* Bounds of the model.
NPix == 1
MaxGrids == 2
MaxDim == 2
MaxCalls == 2
Unit == 64

VARIABLES
    notebook,        \* which notebook this kernel runs (0: the my_function harness)
    pc,              \* index in Cells(notebook) of the next statement
    error,           \* a statement raised NameError; execution has stopped
    calls,           \* the library calls made so far, in order
    ds,              \* the name ds: a dataset, id 0 when unbound
    helpers,         \* heap of TransferFunctionHelper objects
    tfs,             \* heap of transfer-function objects
    tfh, tfh2,       \* the names tfh, tfh2: helper ids, 0 when unbound
    sc,              \* the name sc: the scene, [bound, tf]: tf is its source's transfer function
    source,          \* the name source is bound (to the render source of sc)
    arrays,          \* heap of image arrays
    rendered,        \* per image array, the transfer function it was rendered with
    im, im2, im3,    \* the names im, im2, im3: array ids, 0 when unbound
    scene_nan,       \* the (pixel, channel) entries the scene renders as NaN
    ad,              \* the name ad: the dataset id of the region, 0 when unbound
    pz,              \* the name pz: a projection plot, bound FALSE when unbound
    displayed,       \* what the display calls have shown, in order
    x_coefficients, y_coefficients, z_coefficients,   \* <<>> when unbound
    amr_grid_index,  \* yt.testing._amr_grid_index
    grid_data,       \* the name grid_data
    loop_i,          \* position of the for loop over _amr_grid_index
    fn_defined,      \* the name my_function is bound
    fn_calls,        \* the calls of my_function: argument, locals and result
    p,               \* the name p (the slice plot) is bound
    geom             \* SpecFn: the grid geometry under test

nb1vars == <<helpers, tfs, tfh, tfh2, sc, source, arrays, rendered, im, im2, im3, scene_nan>>
nb2vars == <<ad, pz>>
nb3vars == <<x_coefficients, y_coefficients, z_coefficients, amr_grid_index,
             grid_data, loop_i, fn_defined, fn_calls, p, geom>>
vars == <<notebook, pc, error, calls, ds, helpers, tfs, tfh, tfh2, sc, source, arrays,
          rendered, im, im2, im3, scene_nan, ad, pz, displayed, x_coefficients,
          y_coefficients, z_coefficients, amr_grid_index, grid_data, loop_i,
          fn_defined, fn_calls, p, geom>>

---------------------------------------------------------------------------
\* The statements of each notebook, top to bottom.

Cells1 ==
    << "def_showme", "load", "tfh_new", "tfh_gauss", "plot_gauss", "plot_gauss_mass",
       "tfh_hotcold", "plot_hotcold", "volume_render", "get_source", "set_tf",
       "render_im2", "showme_im2", "tfh2_scaled", "plot_tfh2", "set_tf2",
       "render_im3", "showme_im3" >>

Cells2LoadAfterRegion ==
    << "matplotlib_inline", "import_yt", "all_data", "load_sample", "field_list",
       "derived_field_list", "ad_coordinates", "ad_iron", "ad_ids", "ad_hydrogen",
       "projection_H", "show_H", "projection_H_p0", "show_H_p0" >>

Cells2 ==
    << "matplotlib_inline", "import_yt", "load_sample", "all_data", "field_list",
       "derived_field_list", "ad_coordinates", "ad_iron", "ad_ids", "ad_hydrogen",
       "projection_H", "show_H", "projection_H_p0", "show_H_p0" >>

Cells3 ==
    << "imports", "demo_1d", "plot_1d", "demo_2d", "stride_2d", "def_my_function",
       "grid_data_init", "grid_data_loop", "load_amr_grids", "slice_plot", "zoom" >>

Cells(n) == IF n = 1 THEN Cells1 ELSE IF n = 2 THEN Cells2 ELSE IF n = 3 THEN Cells3 ELSE << >>

At(n, label) ==
    /\ notebook = n
    /\ ~error
    /\ pc <= Len(Cells(n))
    /\ Cells(n)[pc] = label

Done == ~error /\ pc > Len(Cells(notebook))

\* A library call as the log keeps it: load | config | render | other, and whether it
\* acts on a dataset or an object made from one.
Call(fn, kind, uses_ds) == [fn |-> fn, kind |-> kind, uses_ds |-> uses_ds]

NoDataset == [id |-> 0, name |-> "", lo |-> 0, hi |-> 0, grids |-> << >>]
NoPlot == [bound |-> FALSE, ds |-> 0, axis |-> "", field |-> <<"", "">>]

\* Python raises NameError on a name that is not bound: the cell stops, and so does
\* a top-to-bottom run.
Raise ==
    /\ error' = TRUE
    /\ UNCHANGED <<notebook, pc, calls, ds, displayed, nb1vars, nb2vars, nb3vars>>

Advance ==
    /\ pc' = pc + 1
    /\ UNCHANGED <<notebook, error>>

---------------------------------------------------------------------------
\* Notebook 2: OWLS examples.

\* yt.ProjectionPlot(ds, axis, field): the plot object and what it was made from.
ProjectionPlot(d, axis, field) == [bound |-> TRUE, ds |-> d.id, axis |-> axis, field |-> field]

\* %matplotlib inline, import yt
Setup2(label) ==
    /\ At(2, label)
    /\ Advance
    /\ UNCHANGED <<calls, ds, displayed, nb1vars, nb2vars, nb3vars>>

\* ds = yt.load_sample("snapshot_033")
LoadSample ==
    /\ At(2, "load_sample")
    /\ ds' = [id |-> 1, name |-> "snapshot_033", lo |-> 0, hi |-> 0, grids |-> << >>]
    /\ calls' = Append(calls, Call("yt.load_sample", "load", TRUE))
    /\ Advance
    /\ UNCHANGED <<displayed, nb1vars, nb2vars, nb3vars>>

\* ad = ds.all_data()
AllData ==
    /\ At(2, "all_data")
    /\ IF ds.id = 0
         THEN Raise
         ELSE /\ ad' = ds.id
              /\ calls' = Append(calls, Call("ds.all_data", "config", TRUE))
              /\ Advance
              /\ UNCHANGED <<ds, displayed, pz, nb1vars, nb3vars>>

\* ds.field_list, ds.derived_field_list
Inspect(label, attr) ==
    /\ At(2, label)
    /\ IF ds.id = 0
         THEN Raise
         ELSE /\ calls' = Append(calls, Call(attr, "other", TRUE))
              /\ Advance
              /\ UNCHANGED <<ds, displayed, nb1vars, nb2vars, nb3vars>>

\* ad[("PartType0", "Coordinates")] and the three cells after it
AccessParticleData(label) ==
    /\ At(2, label)
    /\ IF ad = 0
         THEN Raise
         ELSE /\ calls' = Append(calls, Call("ad.__getitem__", "other", TRUE))
              /\ Advance
              /\ UNCHANGED <<ds, displayed, nb1vars, nb2vars, nb3vars>>

Project(label, field) ==
    /\ At(2, label)
    /\ IF ds.id = 0
         THEN Raise
         ELSE /\ pz' = ProjectionPlot(ds, "z", field)
              /\ calls' = Append(calls, Call("yt.ProjectionPlot", "config", TRUE))
              /\ Advance
              /\ UNCHANGED <<ds, displayed, ad, nb1vars, nb3vars>>

\* pz = yt.ProjectionPlot(ds, "z", ("gas", "H_density"))
ProjectionH == Project("projection_H", <<"gas", "H_density">>)

ProjectionHp0SameField == Project("projection_H_p0", <<"gas", "H_density">>)

\* pz = yt.ProjectionPlot(ds, "z", ("gas", "H_p0_density"))
ProjectionHp0 == Project("projection_H_p0", <<"gas", "H_p0_density">>)

\* pz.show()
Show(label) ==
    /\ At(2, label)
    /\ IF ~pz.bound
         THEN Raise
         ELSE /\ displayed' = Append(displayed, [what |-> "projection", plot |-> pz])
              /\ calls' = Append(calls, Call("pz.show", "render", TRUE))
              /\ Advance
              /\ UNCHANGED <<ds, nb1vars, nb2vars, nb3vars>>

Notebook2 ==
    \/ Setup2("matplotlib_inline")
    \/ Setup2("import_yt")
    \/ LoadSample
    \/ AllData
    \/ Inspect("field_list", "ds.field_list")
    \/ Inspect("derived_field_list", "ds.derived_field_list")
    \/ AccessParticleData("ad_coordinates")
    \/ AccessParticleData("ad_iron")
    \/ AccessParticleData("ad_ids")
    \/ AccessParticleData("ad_hydrogen")
    \/ ProjectionH
    \/ Show("show_H")
    \/ ProjectionHp0
    \/ Show("show_H_p0")

---------------------------------------------------------------------------
\* Notebook 1: the TransferFunctionHelper tutorial.
\* The field axis of a transfer function is log10 of the temperature, one bin per
\* unit; an alpha or a scale is a number of tenths (50 is 5.0).

\* The temperature ranges (log10) a dataset on disk may hold.
LogTBounds == { <<1, 8>>, <<3, 7>>, <<0, 6>> }

Max2(a, b) == IF a >= b THEN a ELSE b
Min2(a, b) == IF a <= b THEN a ELSE b

\* A method call on a helper or on its transfer function, with its arguments;
\* an argument a call does not take is left at its zero.
MethodCall(m) ==
    [m |-> m, field |-> <<"", "">>, flag |-> FALSE, n |-> 0, w |-> 0, mi |-> 0, ma |-> 0,
     col_bounds |-> <<0, 0>>, alpha |-> "", colormap |-> "", scale |-> 0, ranged |-> FALSE]

SetField(f) == [MethodCall("set_field") EXCEPT !.field = f]
SetLog(b) == [MethodCall("set_log") EXCEPT !.flag = b]
SetBounds == MethodCall("set_bounds")
BuildTransferFunction == MethodCall("build_transfer_function")
\* tf.add_layers(N) with every keyword at its default
AddLayersDefault(n) ==
    [MethodCall("tf.add_layers") EXCEPT !.n = n, !.colormap = "gist_stern", !.alpha = "default"]
AddLayers(n, w, mi, ma, cb, alpha, colormap) ==
    [MethodCall("tf.add_layers") EXCEPT !.n = n, !.w = w, !.mi = mi, !.ma = ma,
        !.col_bounds = cb, !.alpha = alpha, !.colormap = colormap, !.ranged = TRUE]
\* tf.map_to_colormap(mi, ma, colormap=..., scale=...); scale defaults to 1.0
MapToColormap(mi, ma, colormap, scale) ==
    [MethodCall("tf.map_to_colormap") EXCEPT !.mi = mi, !.ma = ma, !.colormap = colormap,
        !.scale = scale, !.ranged = TRUE]
DefaultScale == 10

\* TransferFunctionHelper(ds)
NewHelper(d) ==
    [ds |-> d.id, lo |-> d.lo, hi |-> d.hi, field |-> <<"", "">>, log |-> FALSE,
     bounds_set |-> FALSE, tf |-> 0, hist |-> << >>]

\* The transfer function build_transfer_function makes: nothing mapped yet.
NewTransferFunction(h) ==
    [lo |-> h.lo, hi |-> h.hi, log |-> h.log,
     alpha |-> [b \in h.lo .. h.hi |-> 0],
     cmap |-> [b \in h.lo .. h.hi |-> "none"],
     nlayers |-> 0]

LayerAlpha == 1

\* add_layers: N layers between mi and ma (the bounds when not given).
TfAddLayers(tf, c) ==
    LET mi == IF c.ranged THEN Max2(c.mi, tf.lo) ELSE tf.lo
        ma == IF c.ranged THEN Min2(c.ma, tf.hi) ELSE tf.hi
    IN  [tf EXCEPT !.alpha = [b \in tf.lo .. tf.hi |->
                                 IF b \in mi .. ma THEN Max2(tf.alpha[b], LayerAlpha)
                                                   ELSE tf.alpha[b]],
                   !.cmap = [b \in tf.lo .. tf.hi |->
                                 IF b \in mi .. ma THEN c.colormap ELSE tf.cmap[b]],
                   !.nlayers = tf.nlayers + c.n]

\* map_to_colormap: the bins from mi to ma take the colormap's colours, and the
\* colormap's alpha (1.0) times scale.
TfMapToColormap(tf, c) ==
    LET mi == Max2(c.mi, tf.lo)
        ma == Min2(c.ma, tf.hi)
    IN  [tf EXCEPT !.alpha = [b \in tf.lo .. tf.hi |->
                                 IF b \in mi .. ma THEN c.scale ELSE tf.alpha[b]],
                   !.cmap = [b \in tf.lo .. tf.hi |->
                                 IF b \in mi .. ma THEN c.colormap ELSE tf.cmap[b]]]

\* One method call on the helper st.h, whose transfer functions live in st.tfs.
ApplyCall(st, c) ==
    LET h == [st.h EXCEPT !.hist = Append(@, c)]
    IN  CASE c.m = "set_field" ->
                [st EXCEPT !.h = [h EXCEPT !.field = c.field]]
          [] c.m = "set_log" ->
                [st EXCEPT !.h = [h EXCEPT !.log = c.flag]]
          [] c.m = "set_bounds" ->
                [st EXCEPT !.h = [h EXCEPT !.bounds_set = TRUE]]
          [] c.m = "build_transfer_function" ->
                [h |-> [h EXCEPT !.bounds_set = TRUE, !.tf = Len(st.tfs) + 1],
                 tfs |-> Append(st.tfs, NewTransferFunction(h))]
          [] c.m = "tf.add_layers" /\ h.tf # 0 ->
                [h |-> h, tfs |-> [st.tfs EXCEPT ![h.tf] = TfAddLayers(@, c)]]
          [] c.m = "tf.map_to_colormap" /\ h.tf # 0 ->
                [h |-> h, tfs |-> [st.tfs EXCEPT ![h.tf] = TfMapToColormap(@, c)]]
          [] OTHER -> [st EXCEPT !.h = h]

RECURSIVE Configure(_, _)
Configure(st, cs) ==
    IF cs = << >> THEN st ELSE Configure(ApplyCall(st, Head(cs)), Tail(cs))

RECURSIVE CallLog(_, _)
CallLog(name, cs) ==
    IF cs = << >> THEN << >>
    ELSE <<Call(name \o "." \o Head(cs).m, "config", TRUE)>> \o CallLog(name, Tail(cs))

\* The method calls of the cells that configure a helper, after its construction.
\* lines 91-95
TfhGaussCalls ==
    << SetField(<<"gas", "temperature">>), SetLog(TRUE), SetBounds,
       BuildTransferFunction, AddLayersDefault(5) >>

\* lines 133-147
TfhHotColdCalls ==
    << SetField(<<"gas", "temperature">>), SetBounds, SetLog(TRUE), BuildTransferFunction,
       AddLayers(8, 1, 4, 8, <<4, 8>>, "np.logspace(-1, 2, 7)", "RdBu_r"),
       MapToColormap(6, 8, "Reds", DefaultScale),
       MapToColormap(-1, 6, "Blues_r", DefaultScale) >>

Tfh2CallsUnscaled ==
    << SetField(<<"gas", "temperature">>), SetBounds, SetLog(TRUE), BuildTransferFunction,
       AddLayers(8, 1, 4, 8, <<4, 8>>, "np.logspace(-1, 2, 7)", "RdBu_r"),
       MapToColormap(6, 8, "Reds", DefaultScale),
       MapToColormap(-1, 6, "Blues_r", 10) >>

\* lines 192-206
Tfh2Calls ==
    << SetField(<<"gas", "temperature">>), SetBounds, SetLog(TRUE), BuildTransferFunction,
       AddLayers(8, 1, 4, 8, <<4, 8>>, "np.logspace(-1, 2, 7)", "RdBu_r"),
       MapToColormap(6, 8, "Reds", 50),
       MapToColormap(-1, 6, "Blues_r", 10) >>

\* imports and def showme
DefShowme ==
    /\ At(1, "def_showme")
    /\ Advance
    /\ UNCHANGED <<calls, ds, displayed, nb1vars, nb2vars, nb3vars>>

\* ds = yt.load("Enzo_64/DD0043/data0043")
Load ==
    /\ At(1, "load")
    /\ \E b \in LogTBounds :
          ds' = [id |-> 1, name |-> "Enzo_64/DD0043/data0043", lo |-> b[1], hi |-> b[2],
                 grids |-> << >>]
    /\ calls' = Append(calls, Call("yt.load", "load", TRUE))
    /\ Advance
    /\ UNCHANGED <<displayed, nb1vars, nb2vars, nb3vars>>

MakeHelperReused(cs) ==
    IF tfh = 0
      THEN LET st == Configure([h |-> NewHelper(ds), tfs |-> tfs], cs)
           IN  [helpers |-> Append(helpers, st.h), tfs |-> st.tfs, id |-> Len(helpers) + 1]
      ELSE LET st == Configure([h |-> helpers[tfh], tfs |-> tfs], cs)
           IN  [helpers |-> [helpers EXCEPT ![tfh] = st.h], tfs |-> st.tfs, id |-> tfh]

\* <name> = TransferFunctionHelper(ds), then the method calls cs on it.
\* The result: the heaps, and the id of the new helper.
MakeHelper(cs) ==
    LET st == Configure([h |-> NewHelper(ds), tfs |-> tfs], cs)
    IN  [helpers |-> Append(helpers, st.h), tfs |-> st.tfs, id |-> Len(helpers) + 1]

\* A cell that binds tfh to a new helper and configures it.
BindTfh(label, cs) ==
    /\ At(1, label)
    /\ IF ds.id = 0
         THEN Raise
         ELSE LET r == MakeHelper(cs)
              IN  /\ helpers' = r.helpers
                  /\ tfs' = r.tfs
                  /\ tfh' = r.id
                  /\ calls' = calls \o <<Call("TransferFunctionHelper", "config", TRUE)>>
                                    \o CallLog("tfh", cs)
                  /\ Advance
                  /\ UNCHANGED <<ds, displayed, tfh2, sc, source, arrays, rendered, im, im2,
                                 im3, scene_nan, nb2vars, nb3vars>>

\* tfh = TransferFunctionHelper(ds)
TfhNew == BindTfh("tfh_new", << >>)

\* lines 90-95
TfhGauss == BindTfh("tfh_gauss", TfhGaussCalls)

\* lines 132-147
TfhHotCold == BindTfh("tfh_hotcold", TfhHotColdCalls)

\* lines 191-206
Tfh2Scaled ==
    /\ At(1, "tfh2_scaled")
    /\ IF ds.id = 0
         THEN Raise
         ELSE LET r == MakeHelper(Tfh2Calls)
              IN  /\ helpers' = r.helpers
                  /\ tfs' = r.tfs
                  /\ tfh2' = r.id
                  /\ calls' = calls \o <<Call("TransferFunctionHelper", "config", TRUE)>>
                                    \o CallLog("tfh2", Tfh2Calls)
                  /\ Advance
                  /\ UNCHANGED <<ds, displayed, tfh, sc, source, arrays, rendered, im, im2,
                                 im3, scene_nan, nb2vars, nb3vars>>

\* tfh.plot(), tfh.plot(profile_field=...), tfh2.plot(profile_field=...)
PlotHelper(label, name, h, profile_field) ==
    /\ At(1, label)
    /\ IF h = 0
         THEN Raise
         ELSE /\ displayed' = Append(displayed,
                    [what |-> "transfer_function", helper |-> h, tf |-> helpers[h].tf,
                     profile_field |-> profile_field])
              /\ calls' = Append(calls, Call(name \o ".plot", "render", TRUE))
              /\ Advance
              /\ UNCHANGED <<ds, nb1vars, nb2vars, nb3vars>>

\* Floats of an image: IEEE NaN is unequal to everything, itself included.
NaN == [nan |-> TRUE, v |-> 0]
Num(x) == [nan |-> FALSE, v |-> x]
FNeq(a, b) == a.nan \/ b.nan \/ a.v # b.v

Channels == 1 .. 4
Pixels == 1 .. NPix

MaxAlpha(tf) == CHOOSE m \in {tf.alpha[b] : b \in tf.lo .. tf.hi} :
                    \A b \in tf.lo .. tf.hi : tf.alpha[b] <= m

\* The RGBA image a render of the scene gives with transfer function tf: NaN where
\* the scene yields NaN, else a value that depends on tf; full opacity.
RenderImage(tf) ==
    [px \in Pixels |-> [c \in Channels |->
        IF <<px, c>> \in scene_nan THEN NaN
        ELSE IF c = 4 THEN Num(10)
        ELSE IF c = 2 THEN Num(0)
        ELSE Num(MaxAlpha(tf) + px)]]

\* volume_render's own transfer function
DefaultTransferFunction(d) ==
    TfAddLayers(NewTransferFunction([NewHelper(d) EXCEPT !.log = TRUE]), AddLayersDefault(10))

\* a[:, :, lo:hi]: basic slicing gives a view on the array, not a copy
View(a, chans) == [base |-> a, chans |-> chans]

showme_on_copy(heap, v) == heap

\* def showme(im): im[im != im] = 0.0 writes through the view
showme(heap, v) ==
    [heap EXCEPT ![v.base] =
        [px \in DOMAIN @ |-> [c \in DOMAIN @[px] |->
            IF c \in v.chans /\ FNeq(@[px][c], @[px][c]) THEN Num(0) ELSE @[px][c]]]]

\* im, sc = yt.volume_render(ds, [("gas", "temperature")])
VolumeRender ==
    /\ At(1, "volume_render")
    /\ IF ds.id = 0
         THEN Raise
         ELSE LET tf == DefaultTransferFunction(ds)
                  img == RenderImage(tf)
              IN  /\ tfs' = Append(tfs, tf)
                  /\ sc' = [bound |-> TRUE, tf |-> Len(tfs) + 1]
                  /\ arrays' = Append(arrays, img)
                  /\ rendered' = Append(rendered, [tf |-> Len(tfs) + 1, orig |-> img])
                  /\ im' = Len(arrays) + 1
                  /\ calls' = Append(calls, Call("yt.volume_render", "render", TRUE))
                  /\ Advance
                  /\ UNCHANGED <<ds, displayed, helpers, tfh, tfh2, source, im2, im3,
                                 scene_nan, nb2vars, nb3vars>>

\* source = sc.get_source()
GetSource ==
    /\ At(1, "get_source")
    /\ IF ~sc.bound
         THEN Raise
         ELSE /\ source' = TRUE
              /\ calls' = Append(calls, Call("sc.get_source", "config", TRUE))
              /\ Advance
              /\ UNCHANGED <<ds, displayed, helpers, tfs, tfh, tfh2, sc, arrays, rendered,
                             im, im2, im3, scene_nan, nb2vars, nb3vars>>

\* source.set_transfer_function(<helper>.tf): source is the scene's own source
SetTransferFunction(label, h) ==
    /\ At(1, label)
    /\ IF ~source \/ h = 0
         THEN Raise
         ELSE /\ sc' = [sc EXCEPT !.tf = helpers[h].tf]
              /\ calls' = Append(calls, Call("source.set_transfer_function", "config", TRUE))
              /\ Advance
              /\ UNCHANGED <<ds, displayed, helpers, tfs, tfh, tfh2, source, arrays, rendered,
                             im, im2, im3, scene_nan, nb2vars, nb3vars>>

SetTfSkipped ==
    /\ At(1, "set_tf")
    /\ Advance
    /\ UNCHANGED <<calls, ds, displayed, nb1vars, nb2vars, nb3vars>>

\* source.set_transfer_function(tfh.tf)
SetTf == SetTransferFunction("set_tf", tfh)

\* source.set_transfer_function(tfh2.tf)
SetTf2 == SetTransferFunction("set_tf2", tfh2)

\* sc.render(): the new image, rendered with the source's transfer function
SceneRender ==
    LET img == RenderImage(tfs[sc.tf])
    IN  /\ arrays' = Append(arrays, img)
        /\ rendered' = Append(rendered, [tf |-> sc.tf, orig |-> img])
        /\ calls' = Append(calls, Call("sc.render", "render", TRUE))
        /\ Advance
        /\ UNCHANGED <<ds, displayed, helpers, tfs, tfh, tfh2, sc, source, im, scene_nan,
                       nb2vars, nb3vars>>

\* im2 = sc.render()
RenderIm2 ==
    /\ At(1, "render_im2")
    /\ IF ~sc.bound
         THEN Raise
         ELSE SceneRender /\ im2' = Len(arrays) + 1 /\ UNCHANGED im3

\* im3 = sc.render()
RenderIm3 ==
    /\ At(1, "render_im3")
    /\ IF ~sc.bound
         THEN Raise
         ELSE SceneRender /\ im3' = Len(arrays) + 1 /\ UNCHANGED im2

\* showme(<image>[:, :, :3])
Showme(label, a) ==
    /\ At(1, label)
    /\ IF a = 0
         THEN Raise
         ELSE /\ arrays' = showme(arrays, View(a, 1 .. 3))
              /\ displayed' = Append(displayed, [what |-> "image", array |-> a])
              /\ calls' = calls \o << Call("showme", "render", TRUE),
                                      Call("yt.write_bitmap", "render", TRUE) >>
              /\ Advance
              /\ UNCHANGED <<ds, helpers, tfs, tfh, tfh2, sc, source, rendered, im, im2, im3,
                             scene_nan, nb2vars, nb3vars>>

Notebook1 ==
    \/ DefShowme
    \/ Load
    \/ TfhNew
    \/ TfhGauss
    \/ PlotHelper("plot_gauss", "tfh", tfh, <<"", "">>)
    \/ PlotHelper("plot_gauss_mass", "tfh", tfh, <<"gas", "mass">>)
    \/ TfhHotCold
    \/ PlotHelper("plot_hotcold", "tfh", tfh, <<"gas", "mass">>)
    \/ VolumeRender
    \/ GetSource
    \/ SetTf
    \/ RenderIm2
    \/ Showme("showme_im2", im2)
    \/ Tfh2Scaled
    \/ PlotHelper("plot_tfh2", "tfh2", tfh2, <<"gas", "mass">>)
    \/ SetTf2
    \/ RenderIm3
    \/ Showme("showme_im3", im3)

---------------------------------------------------------------------------
\* Notebook 3: loading data via functions.

RECURSIVE Gcd(_, _)
Gcd(a, b) == IF b = 0 THEN a ELSE Gcd(b, a % b)
RECURSIVE LcmUpTo(_)
LcmUpTo(n) == IF n <= 1 THEN 1 ELSE (n * LcmUpTo(n - 1)) \div Gcd(n, LcmUpTo(n - 1))

\* A coordinate is a whole number of 1/UF of the domain edge; edges and cell widths
\* are multiples of Fine, which makes dds/2, (re-le)/dims and the linspace step exact.
Fine == 2 * LcmUpTo(MaxDim)
UF == Unit * Fine
Half == UF \div 2

Axes == 1 .. 3

\* ---- numpy ----

LinspaceNoEndpoint(start, stop, num) ==
    [k \in 1 .. num |-> start + (k - 1) * ((stop - start) \div num)]

\* np.linspace(start, stop, num): num samples, the last one stop itself
Linspace(start, stop, num) ==
    [k \in 1 .. num |->
        IF num = 1 THEN start
        ELSE IF k = num THEN stop
        ELSE start + (k - 1) * ((stop - start) \div (num - 1))]

\* a[:, None, None], a[None, :, None], a[None, None, :]
Ax0(a) == [i \in 1 .. Len(a) |-> << << a[i] >> >>]
Ax1(a) == << [j \in 1 .. Len(a) |-> << a[j] >>] >>
Ax2(a) == << << a >> >>

Shape(A) == << Len(A), Len(A[1]), Len(A[1][1]) >>

\* numpy's broadcasting of two three-dimensional arrays of shapes sa and sb: an axis
\* of length 1 is stretched to the length the other array has along it.
BroadcastShape(sa, sb) == [d \in Axes |-> IF sa[d] = 1 THEN sb[d] ELSE sa[d]]
Stretch(sh, d, i) == IF sh[d] = 1 THEN 1 ELSE i

\* A + B and A * B on three-dimensional arrays
Add3(A, B) ==
    LET sa == Shape(A)
        sb == Shape(B)
        n == BroadcastShape(sa, sb)
    IN  [i \in 1 .. n[1] |-> [j \in 1 .. n[2] |-> [k \in 1 .. n[3] |->
            A[Stretch(sa, 1, i)][Stretch(sa, 2, j)][Stretch(sa, 3, k)]
              + B[Stretch(sb, 1, i)][Stretch(sb, 2, j)][Stretch(sb, 3, k)]]]]
Mul3(A, B) ==
    LET sa == Shape(A)
        sb == Shape(B)
        n == BroadcastShape(sa, sb)
    IN  [i \in 1 .. n[1] |-> [j \in 1 .. n[2] |-> [k \in 1 .. n[3] |->
            A[Stretch(sa, 1, i)][Stretch(sa, 2, j)][Stretch(sa, 3, k)]
              * B[Stretch(sb, 1, i)][Stretch(sb, 2, j)][Stretch(sb, 3, k)]]]]

RECURSIVE IsqrtBetween(_, _, _)
IsqrtBetween(n, lo, hi) ==
    IF hi - lo <= 1 THEN lo
    ELSE LET mid == (lo + hi) \div 2
         IN  IF mid * mid <= n THEN IsqrtBetween(n, mid, hi) ELSE IsqrtBetween(n, lo, mid)

\* np.sqrt of s/UF^2, to 1/16 of 1/UF
Sqrt(s) == IsqrtBetween(256 * s, 0, Min2(256 * s + 1, 46340))
Sqrt3(A) ==
    [i \in 1 .. Len(A) |-> [j \in 1 .. Len(A[i]) |-> [k \in 1 .. Len(A[i][j]) |->
        Sqrt(A[i][j][k])]]]

\* np.exp(-20 * (1.1 * r**2)) in twentieths, rounded up (it is never 0), r as Sqrt
\* gives it: exp(-22 r^2) is 2^(-22 r^2 / ln 2), about 2^(-32 r^2)
AttenQ(r) ==
    LET halvings == 2 ^ Min2((r * r) \div (8 * UF * UF), 5)
    IN  (20 + halvings - 1) \div halvings
Atten3(R) ==
    [i \in 1 .. Len(R) |-> [j \in 1 .. Len(R[i]) |-> [k \in 1 .. Len(R[i][j]) |->
        AttenQ(R[i][j][k])]]]

\* np.sin in halves, over sixteenths of a turn
SinTable == << 0, 1, 1, 2, 2, 2, 1, 1, 0, -1, -1, -2, -2, -2, -1, -1 >>

\* np.sin(2 ** (1 + i) * (x * np.pi * 2)), x a coordinate
SinTerm(i, x) == SinTable[(((16 * (2 ^ (1 + i)) * x) \div UF) % 16) + 1]

RECURSIVE SumTerms(_, _, _)
SumTerms(coefficients, x, n) ==
    IF n = 0 THEN 0
    ELSE SumTerms(coefficients, x, n - 1) + coefficients[n] * SinTerm(n - 1, x)

\* sum(c * np.sin(2 ** (1 + i) * (x * np.pi * 2)) for i, c in enumerate(coefficients))
Trig(coefficients, xs) ==
    [n \in 1 .. Len(xs) |-> SumTerms(coefficients, xs[n], Len(coefficients))]

\* (x.d - 0.5) ** 2
SqFromCentre(x) == (x - Half) * (x - Half)
SqFromCentre1(xs) == [n \in 1 .. Len(xs) |-> SqFromCentre(xs[n])]

\* ---- my_function ----

\* lines 701-708: the sample coordinates along axis i
CellCentres(grid, i) ==
    Linspace(grid.LeftEdge[i] + grid.dds[i] \div 2,
             grid.RightEdge[i] - grid.dds[i] \div 2,
             grid.ActiveDimensions[i])

my_function_zyx(grid, field_name, cx, cy, cz) ==
    LET x == CellCentres(grid, 1)
        y == CellCentres(grid, 2)
        z == CellCentres(grid, 3)
        r == Sqrt3(Add3(Add3(Ax2(SqFromCentre1(x)), Ax1(SqFromCentre1(y))),
                        Ax0(SqFromCentre1(z))))
        atten == Atten3(r)
        xv == Trig(cx, x)
        yv == Trig(cy, y)
        zv == Trig(cz, z)
    IN  [x |-> x, y |-> y, z |-> z,
         result |-> Mul3(atten, Mul3(Mul3(Ax2(xv), Ax1(yv)), Ax0(zv)))]

my_function_by_level(grid, field_name, cx, cy, cz) ==
    LET x == CellCentres(grid, 1)
        y == CellCentres(grid, 2)
        z == CellCentres(grid, 3)
        r == Sqrt3(Add3(Add3(Ax0(SqFromCentre1(x)), Ax1(SqFromCentre1(y))),
                        Ax2(SqFromCentre1(z))))
        atten == Atten3(r)
        xv == Trig(cx, x)
        yv == Trig(cy, y)
        zv == Trig(IF grid.Level = 0 THEN cz ELSE cx, z)
    IN  [x |-> x, y |-> y, z |-> z,
         result |-> Mul3(atten, Mul3(Mul3(Ax0(xv), Ax1(yv)), Ax2(zv)))]

\* def my_function(grid, field_name), reading the globals cx, cy, cz
\* (x_coefficients, y_coefficients, z_coefficients): its locals x, y, z and its result
my_function(grid, field_name, cx, cy, cz) ==
    LET x == CellCentres(grid, 1)
        y == CellCentres(grid, 2)
        z == CellCentres(grid, 3)
        r == Sqrt3(Add3(Add3(Ax0(SqFromCentre1(x)), Ax1(SqFromCentre1(y))),
                        Ax2(SqFromCentre1(z))))
        atten == Atten3(r)
        xv == Trig(cx, x)
        yv == Trig(cy, y)
        zv == Trig(cz, z)
    IN  [x |-> x, y |-> y, z |-> z,
         result |-> Mul3(atten, Mul3(Mul3(Ax0(xv), Ax1(yv)), Ax2(zv)))]

\* lines 694-696: the tuples bound by the cell that defines my_function
CoefficientsAtDefinition ==
    [x |-> <<100, 50, 30, 10, 20>>,
     y |-> <<20, 90, 80, 30, 30>>,
     z |-> <<50, 10, 90, 40, 40>>]

CallRecordAtDefinition(grid, field_name) ==
    LET r == my_function(grid, field_name, CoefficientsAtDefinition.x,
                         CoefficientsAtDefinition.y, CoefficientsAtDefinition.z)
    IN  [grid |-> grid, field_name |-> field_name, x |-> r.x, y |-> r.y, z |-> r.z,
         result |-> r.result]

\* One call of my_function as fn_calls keeps it.
CallRecord(grid, field_name) ==
    LET r == my_function(grid, field_name, x_coefficients, y_coefficients, z_coefficients)
    IN  [grid |-> grid, field_name |-> field_name, x |-> r.x, y |-> r.y, z |-> r.z,
         result |-> r.result]

\* ---- the cells ----

\* A Python function object, as a dict value or an argument holds it: a reference.
FunctionObject(name) == [kind |-> "callable", name |-> name]

\* imports; the one-dimensional demo (lines 596-599) calls numpy only
Setup3(label) ==
    /\ At(3, label)
    /\ Advance
    /\ UNCHANGED <<calls, ds, displayed, nb1vars, nb2vars, nb3vars>>

\* fig, (...) = plt.subplots(2, 2, dpi=150); ax4.plot; ax2.plot; ax3.plot; ax1.axis(False)
Plot1d ==
    /\ At(3, "plot_1d")
    /\ calls' = calls \o << Call("plt.subplots", "config", FALSE),
                            Call("ax4.plot", "render", FALSE),
                            Call("ax2.plot", "render", FALSE),
                            Call("ax3.plot", "render", FALSE),
                            Call("ax1.axis", "config", FALSE) >>
    /\ displayed' = Append(displayed, [what |-> "figure"])
    /\ Advance
    /\ UNCHANGED <<ds, nb1vars, nb2vars, nb3vars>>

\* lines 639-654: the two-dimensional demo binds x_coefficients and y_coefficients
RunDemo2d ==
    /\ x_coefficients' = <<100, 50, 30, 10>>
    /\ y_coefficients' = <<20, 90, 80, 30>>
    /\ calls' = Append(calls, Call("plt.pcolormesh", "render", FALSE))
    /\ displayed' = Append(displayed, [what |-> "pcolormesh"])
    /\ UNCHANGED <<ds, nb1vars, nb2vars, z_coefficients, amr_grid_index, grid_data, loop_i,
                   fn_defined, fn_calls, p, geom>>

Demo2d ==
    /\ At(3, "demo_2d")
    /\ RunDemo2d
    /\ Advance

\* plt.pcolormesh(x[::32, ::32], y[::32, ::32], (z * atten)[::32, ::32])
Stride2d ==
    /\ At(3, "stride_2d")
    /\ calls' = Append(calls, Call("plt.pcolormesh", "render", FALSE))
    /\ displayed' = Append(displayed, [what |-> "pcolormesh"])
    /\ Advance
    /\ UNCHANGED <<ds, nb1vars, nb2vars, nb3vars>>

\* lines 694-727: the three coefficient tuples and def my_function
DefMyFunction ==
    /\ At(3, "def_my_function")
    /\ x_coefficients' = CoefficientsAtDefinition.x
    /\ y_coefficients' = CoefficientsAtDefinition.y
    /\ z_coefficients' = CoefficientsAtDefinition.z
    /\ fn_defined' = TRUE
    /\ Advance
    /\ UNCHANGED <<calls, ds, displayed, nb1vars, nb2vars, amr_grid_index, grid_data,
                   loop_i, fn_calls, p, geom>>

\* from yt.testing import _amr_grid_index; grid_data = []
GridDataInit ==
    /\ At(3, "grid_data_init")
    /\ grid_data' = << >>
    /\ loop_i' = 1
    /\ pc' = IF amr_grid_index = << >> THEN pc + 2 ELSE pc + 1
    /\ UNCHANGED <<notebook, error, calls, ds, displayed, nb1vars, nb2vars, x_coefficients,
                   y_coefficients, z_coefficients, amr_grid_index, fn_defined, fn_calls, p,
                   geom>>

GridDataEntryEager(t) ==
    [level |-> t[1], left_edge |-> t[2], right_edge |-> t[3], dimensions |-> t[4],
     density |-> [kind |-> "array", name |-> "my_function"]]

GridDataEntryMisplaced(t) ==
    [level |-> t[1], left_edge |-> t[2], right_edge |-> t[3], dimensions |-> t[3],
     density |-> FunctionObject("my_function")]

\* lines 750-756: the dict of one tuple (level, le, re, dims)
GridDataEntry(t) ==
    [level |-> t[1], left_edge |-> t[2], right_edge |-> t[3], dimensions |-> t[4],
     density |-> FunctionObject("my_function")]

\* for level, le, re, dims in _amr_grid_index: grid_data.append({...})
GridDataAppend ==
    /\ At(3, "grid_data_loop")
    /\ loop_i <= Len(amr_grid_index)
    /\ IF ~fn_defined
         THEN Raise
         ELSE /\ grid_data' = Append(grid_data, GridDataEntry(amr_grid_index[loop_i]))
              /\ loop_i' = loop_i + 1
              /\ pc' = IF loop_i = Len(amr_grid_index) THEN pc + 1 ELSE pc
              /\ UNCHANGED <<notebook, error, calls, ds, displayed, nb1vars, nb2vars,
                             x_coefficients, y_coefficients, z_coefficients, amr_grid_index,
                             fn_defined, fn_calls, p, geom>>

\* The grid object the dataset makes of a grid_data entry; yt derives the cell width.
GridObject(id, e) ==
    [id |-> id, Level |-> e.level, LeftEdge |-> e.left_edge, RightEdge |-> e.right_edge,
     ActiveDimensions |-> e.dimensions,
     dds |-> [a \in Axes |-> (e.right_edge[a] - e.left_edge[a]) \div e.dimensions[a]],
     data |-> e.density]

\* ds = yt.load_amr_grids(grid_data, [32, 32, 32], bbox=...): the fields are kept as
\* given; a field that is a function is not called here.
LoadAmrGrids ==
    /\ At(3, "load_amr_grids")
    /\ ds' = [id |-> 1, name |-> "AMRGridData", lo |-> 0, hi |-> 0,
              grids |-> [g \in 1 .. Len(grid_data) |-> GridObject(g, grid_data[g])]]
    /\ calls' = Append(calls, Call("yt.load_amr_grids", "load", TRUE))
    /\ Advance
    /\ UNCHANGED <<displayed, nb1vars, nb2vars, nb3vars>>

\* The grids the slice at y = 0.5 cuts.
Sliced(grids) == SelectSeq(grids, LAMBDA g : g.LeftEdge[2] <= Half /\ Half <= g.RightEdge[2])

\* Reading the field of the grids gs: a field given as a function is called now, with
\* the grid and the field name.
RECURSIVE ReadField(_, _)
ReadField(gs, field_name) ==
    IF gs = << >> THEN << >>
    ELSE (IF Head(gs).data.kind = "callable"
            THEN << CallRecord(Head(gs), field_name) >> ELSE << >>)
         \o ReadField(Tail(gs), field_name)

\* p = ds.r[:, 0.5, :].plot("density").set_log("density", False)
SlicePlot ==
    /\ At(3, "slice_plot")
    /\ IF ds.id = 0
         THEN Raise
         ELSE LET read == ReadField(Sliced(ds.grids), <<"stream", "density">>)
              IN  /\ fn_calls' = fn_calls \o read
                  /\ p' = TRUE
                  /\ calls' = calls
                        \o << Call("ds.r.__getitem__", "config", TRUE),
                              Call("plot", "render", TRUE) >>
                        \o [k \in 1 .. Len(read) |-> Call("my_function", "other", TRUE)]
                        \o << Call("set_log", "config", TRUE) >>
                  /\ displayed' = Append(displayed, [what |-> "slice"])
                  /\ Advance
                  /\ UNCHANGED <<ds, nb1vars, nb2vars, x_coefficients, y_coefficients,
                                 z_coefficients, amr_grid_index, grid_data, loop_i,
                                 fn_defined, geom>>

\* p.zoom(4)
Zoom ==
    /\ At(3, "zoom")
    /\ IF ~p
         THEN Raise
         ELSE /\ calls' = Append(calls, Call("p.zoom", "render", TRUE))
              /\ displayed' = Append(displayed, [what |-> "slice"])
              /\ Advance
              /\ UNCHANGED <<ds, nb1vars, nb2vars, nb3vars>>

Notebook3 ==
    \/ Setup3("imports")
    \/ Setup3("demo_1d")
    \/ Plot1d
    \/ Demo2d
    \/ Stride2d
    \/ DefMyFunction
    \/ GridDataInit
    \/ GridDataAppend
    \/ LoadAmrGrids
    \/ SlicePlot
    \/ Zoom

---------------------------------------------------------------------------
\* The inputs.

Vec(a, b, c) == << a * Fine, b * Fine, c * Fine >>

\* Tuples (level, left edge, right edge, dimensions) that _amr_grid_index may hold: the
\* whole domain, a refined grid at its centre and one in its corner.  With Unit = 64
\* a refined cell is 1/64 of the domain edge, as at level 1 over 32 root cells.
GridTuples ==
    { << 0, Vec(0, 0, 0), Vec(Unit, Unit, Unit), << MaxDim, MaxDim, MaxDim >> >>,
      << 0, Vec(0, 0, 0), Vec(Unit, Unit, Unit), << 1, MaxDim, 1 >> >>,
      << 1, Vec(Unit \div 2 - 1, Unit \div 2 - 1, Unit \div 2 - 1),
           Vec(Unit \div 2 + 1, Unit \div 2, Unit \div 2 - 1 + MaxDim), << 2, 1, MaxDim >> >>,
      << 1, Vec(0, 0, 4), Vec(1, 2, 6), << 1, 2, 2 >> >> }

SeqsUpTo(S, n) == UNION { [1 .. k -> S] : k \in 1 .. n }

Levels == {0, 1}
FieldNames == { <<"stream", "density">>, <<"stream", "temperature">> }

\* Where a grid lies: its left edge, its cell widths and by how much its right edge
\* exceeds left edge + dimensions * cell width.
Placements ==
    { << Vec(0, 0, 0), Vec(1, 1, 1), Vec(0, 0, 0) >>,
      << Vec(2, 3, 0), Vec(2, 1, 2), Vec(0, 0, 0) >>,
      << Vec(0, 0, 0), Vec(2, 1, 2), Vec(0, 1, 0) >>,
      << Vec(2, 3, 0), Vec(1, 1, 1), Vec(0, 1, 0) >> }

\* Grid geometries for my_function: edges, cell widths and dimensions, with cell widths
\* that do and that do not divide the grid evenly.
Geoms ==
    { [LeftEdge |-> pl[1],
       dds |-> pl[2],
       ActiveDimensions |-> n,
       RightEdge |-> [a \in Axes |-> pl[1][a] + n[a] * pl[2][a] + pl[3][a]]] :
        pl \in Placements,
        n \in [Axes -> 1 .. MaxDim] }

Init ==
    /\ notebook \in {1, 2, 3}
    /\ pc = 1
    /\ error = FALSE
    /\ calls = << >>
    /\ ds = NoDataset
    /\ helpers = << >>
    /\ tfs = << >>
    /\ tfh = 0
    /\ tfh2 = 0
    /\ sc = [bound |-> FALSE, tf |-> 0]
    /\ source = FALSE
    /\ arrays = << >>
    /\ rendered = << >>
    /\ im = 0
    /\ im2 = 0
    /\ im3 = 0
    /\ scene_nan \in IF notebook = 1 THEN SUBSET (Pixels \X Channels) ELSE { {} }
    /\ ad = 0
    /\ pz = NoPlot
    /\ displayed = << >>
    /\ x_coefficients = << >>
    /\ y_coefficients = << >>
    /\ z_coefficients = << >>
    /\ amr_grid_index \in IF notebook = 3 THEN SeqsUpTo(GridTuples, MaxGrids) ELSE { << >> }
    /\ grid_data = << >>
    /\ loop_i = 0
    /\ fn_defined = FALSE
    /\ fn_calls = << >>
    /\ p = FALSE
    /\ geom = << >>

Next == Notebook1 \/ Notebook2 \/ Notebook3

Spec == Init /\ [][Next]_vars

\* my_function alone, as defined by the cell of lines 694-727, on a grid of geometry
\* geom whose other attributes vary from call to call.
InitFn ==
    /\ notebook = 0
    /\ pc = 1
    /\ error = FALSE
    /\ calls = << >>
    /\ ds = NoDataset
    /\ helpers = << >>
    /\ tfs = << >>
    /\ tfh = 0
    /\ tfh2 = 0
    /\ sc = [bound |-> FALSE, tf |-> 0]
    /\ source = FALSE
    /\ arrays = << >>
    /\ rendered = << >>
    /\ im = 0
    /\ im2 = 0
    /\ im3 = 0
    /\ scene_nan = {}
    /\ ad = 0
    /\ pz = NoPlot
    /\ displayed = << >>
    /\ x_coefficients = <<100, 50, 30, 10, 20>>
    /\ y_coefficients = <<20, 90, 80, 30, 30>>
    /\ z_coefficients = <<50, 10, 90, 40, 40>>
    /\ amr_grid_index = << >>
    /\ grid_data = << >>
    /\ loop_i = 0
    /\ fn_defined = TRUE
    /\ fn_calls = << >>
    /\ p = FALSE
    /\ geom \in Geoms

CallMyFunction ==
    /\ notebook = 0
    /\ Len(fn_calls) < MaxCalls
    /\ \E level \in Levels, field_name \in FieldNames :
          fn_calls' = Append(fn_calls,
              CallRecord([id |-> Len(fn_calls) + 1, Level |-> level, LeftEdge |-> geom.LeftEdge,
                          RightEdge |-> geom.RightEdge,
                          ActiveDimensions |-> geom.ActiveDimensions, dds |-> geom.dds,
                          data |-> FunctionObject("my_function")],
                         field_name))
    /\ calls' = Append(calls, Call("my_function", "other", TRUE))
    /\ UNCHANGED <<notebook, pc, error, ds, displayed, nb1vars, nb2vars, x_coefficients,
                   y_coefficients, z_coefficients, amr_grid_index, grid_data, loop_i,
                   fn_defined, p, geom>>

SpecFn == InitFn /\ [][CallMyFunction]_vars

---------------------------------------------------------------------------
\* Properties.

Idx(n, label) == CHOOSE k \in 1 .. Len(Cells(n)) : Cells(n)[k] = label
Past(n, label) == notebook = n /\ pc > Idx(n, label)
CallIds == 1 .. Len(calls)

---------------------------------------------------------------------------
\* Cells run out of order.  A notebook cell can be run again at any time after it
\* first ran: here the two-dimensional demo cell (lines 639-654), up to MaxReruns times.

MaxReruns == 1

PcolormeshCalls == Len(SelectSeq(calls, LAMBDA c : c.fn = "plt.pcolormesh"))

\* The kernel runs one cell at a time: another cell can start only between cells, not
\* inside the cell of lines 745-760 (the loop and load_amr_grids).
BetweenCells ==
    IF pc > Len(Cells3) THEN TRUE ELSE Cells3[pc] \notin {"grid_data_loop", "load_amr_grids"}

RerunDemo2d ==
    /\ Past(3, "demo_2d")
    /\ ~error
    /\ BetweenCells
    /\ PcolormeshCalls < IF Past(3, "stride_2d") THEN 2 + MaxReruns ELSE 1 + MaxReruns
    /\ RunDemo2d
    /\ UNCHANGED <<notebook, pc, error>>

NextRerun == Next \/ RerunDemo2d

SpecRerun == Init /\ [][NextRerun]_vars

---------------------------------------------------------------------------

\* C1 as stated: the calls fall into three phases, load, then configure, then
\* render/display: no load follows a configuration or render/display call and no
\* configuration call follows a render/display call.
LoadConfigureRenderPhases ==
    \A i, j \in CallIds :
        i < j =>
            /\ ~(calls[i].kind \in {"config", "render"} /\ calls[j].kind = "load")
            /\ ~(calls[i].kind = "render" /\ calls[j].kind = "config")

\* C1 amended: no statement uses an unbound name; every call on a dataset or on an
\* object made from one follows the dataset-loading call, and every render/display
\* call on such an object follows a configuration call on one.
LoadBeforeUseConfigureBeforeRender ==
    /\ ~error
    /\ \A j \in CallIds :
          /\ calls[j].uses_ds /\ calls[j].kind # "load"
                => \E i \in 1 .. j - 1 : calls[i].kind = "load"
          /\ calls[j].uses_ds /\ calls[j].kind = "render"
                => \E i \in 1 .. j - 1 : calls[i].kind = "config" /\ calls[i].uses_ds

\* C1 witness: a notebook has run to its end with a render/display call made before
\* its load and a configuration call made after a render/display call.
PhasesInterleaveWitness ==
    /\ Done
    /\ \E i, j \in CallIds : i < j /\ calls[i].kind = "render" /\ calls[j].kind = "load"
    /\ \E i, j \in CallIds :
          i < j /\ calls[i].kind = "render" /\ calls[j].kind = "config" /\ calls[j].uses_ds

\* C2: building grid_data and loading it call my_function zero times and make no
\* field array: every entry holds the one function object, and my_function is called
\* only by the plot that reads the field, after load_amr_grids.
DeferredDataAccess ==
    notebook = 3 =>
        /\ pc <= Idx(3, "slice_plot") => fn_calls = << >>
        /\ \A k \in 1 .. Len(grid_data) : grid_data[k].density = FunctionObject("my_function")
        /\ \A j \in CallIds :
              calls[j].fn = "my_function"
                => /\ \E i \in 1 .. j - 1 : calls[i].fn = "yt.load_amr_grids"
                   /\ \E i \in 1 .. j - 1 : calls[i].fn = "plot"
        /\ Len(SelectSeq(calls, LAMBDA c : c.fn = "my_function")) = Len(fn_calls)

\* C2 witness: the notebook has run and the plot has called my_function.
DeferredCallWitness ==
    /\ notebook = 3
    /\ Done
    /\ Len(grid_data) > 1
    /\ fn_calls # << >>

FnCallIds == 1 .. Len(fn_calls)
Coords(c, a) == IF a = 1 THEN c.x ELSE IF a = 2 THEN c.y ELSE c.z

\* dds[a] equals (RightEdge[a] - LeftEdge[a]) / ActiveDimensions[a]
EvenCells(g, a) == g.dds[a] * g.ActiveDimensions[a] = g.RightEdge[a] - g.LeftEdge[a]

\* C3: along an axis whose dds is (RightEdge - LeftEdge) / ActiveDimensions the
\* coordinates my_function computes are the cell centres: ActiveDimensions of them,
\* the k-th (from 0) LeftEdge + (k + 1/2) dds, each strictly inside the grid.
CellCentresExact ==
    \A n \in FnCallIds : \A a \in Axes :
        LET c == fn_calls[n]
            g == c.grid
            xs == Coords(c, a)
        IN  EvenCells(g, a) =>
                /\ Len(xs) = g.ActiveDimensions[a]
                /\ \A k \in 1 .. Len(xs) :
                      /\ 2 * xs[k] = 2 * g.LeftEdge[a] + (2 * k - 1) * g.dds[a]
                      /\ g.LeftEdge[a] < xs[k]
                      /\ xs[k] < g.RightEdge[a]

\* C3 witness: a call on a grid with one cell along x and several along z, evenly
\* divided along both.
CellCentresWitness ==
    \E n \in FnCallIds :
        LET g == fn_calls[n].grid
        IN  /\ EvenCells(g, 1) /\ g.ActiveDimensions[1] = 1
            /\ EvenCells(g, 3) /\ g.ActiveDimensions[3] = MaxDim
            /\ 2 * fn_calls[n].x[1] = g.LeftEdge[1] + g.RightEdge[1]

AttenAt(x, y, z) == AttenQ(Sqrt(SqFromCentre(x) + SqFromCentre(y) + SqFromCentre(z)))

\* C4: the result has three axes, of lengths ActiveDimensions, and its entry (i, j, k)
\* is atten(i, j, k) * xv[i] * yv[j] * zv[k]: x along the first axis, y along the
\* second, z along the third.
ThreeDimensionalResult ==
    \A n \in FnCallIds :
        LET c == fn_calls[n]
            dims == c.grid.ActiveDimensions
            xv(i) == SumTerms(x_coefficients, c.x[i], Len(x_coefficients))
            yv(j) == SumTerms(y_coefficients, c.y[j], Len(y_coefficients))
            zv(k) == SumTerms(z_coefficients, c.z[k], Len(z_coefficients))
        IN  /\ DOMAIN c.result = 1 .. dims[1]
            /\ \A i \in 1 .. dims[1] :
                  /\ DOMAIN c.result[i] = 1 .. dims[2]
                  /\ \A j \in 1 .. dims[2] :
                        /\ DOMAIN c.result[i][j] = 1 .. dims[3]
                        /\ \A k \in 1 .. dims[3] :
                              c.result[i][j][k]
                                = AttenAt(c.x[i], c.y[j], c.z[k]) * xv(i) * yv(j) * zv(k)

\* C4 witness: a call on a grid whose three dimensions are not all alike, with a
\* result that is not zero everywhere.
ThreeDimensionalWitness ==
    \E n \in FnCallIds :
        LET c == fn_calls[n]
            dims == c.grid.ActiveDimensions
        IN  /\ dims[1] # dims[3]
            /\ dims[2] # dims[3]
            /\ \E i \in 1 .. dims[1], j \in 1 .. dims[2], k \in 1 .. dims[3] :
                  c.result[i][j][k] # 0

SameGeometry(g, h) ==
    /\ g.LeftEdge = h.LeftEdge
    /\ g.RightEdge = h.RightEdge
    /\ g.dds = h.dds
    /\ g.ActiveDimensions = h.ActiveDimensions

\* C5: two calls of my_function on grids of equal LeftEdge, RightEdge, dds and
\* ActiveDimensions return equal results, whatever the field name, the level, the
\* other attributes of the grid and the calls made before.
SpatialPositionOnly ==
    \A m, n \in FnCallIds :
        SameGeometry(fn_calls[m].grid, fn_calls[n].grid)
            => fn_calls[m].result = fn_calls[n].result

\* C5 witness: two calls on grids of one geometry that differ in level, field name and
\* identity, with a result that is not zero everywhere.
SpatialPositionWitness ==
    \E m, n \in FnCallIds :
        /\ m < n
        /\ SameGeometry(fn_calls[m].grid, fn_calls[n].grid)
        /\ fn_calls[m].grid.Level # fn_calls[n].grid.Level
        /\ fn_calls[m].grid.id # fn_calls[n].grid.id
        /\ fn_calls[m].field_name # fn_calls[n].field_name
        /\ \E i \in DOMAIN fn_calls[n].result : fn_calls[n].result[i][1][1] # 0

HierarchyKeys == {"level", "left_edge", "right_edge", "dimensions"}

GridDataMatchesIndex ==
    notebook = 3 /\ pc = Idx(3, "load_amr_grids") =>
        /\ Len(grid_data) = Len(amr_grid_index)
        /\ \A k \in 1 .. Len(grid_data) :
              /\ grid_data[k].level = amr_grid_index[k][1]
              /\ grid_data[k].left_edge = amr_grid_index[k][2]
              /\ grid_data[k].right_edge = amr_grid_index[k][3]
              /\ grid_data[k].dimensions = amr_grid_index[k][4]
              /\ (DOMAIN grid_data[k]) \ HierarchyKeys = {"density"}

\* C6: when the loop has ended grid_data has one entry per tuple of _amr_grid_index, in
\* the same order, each with that tuple's level, left_edge, right_edge and dimensions
\* and the one field "density"; no step changes _amr_grid_index.
GridDataFaithful == [](GridDataMatchesIndex) /\ [][amr_grid_index' = amr_grid_index]_vars

\* C6 witness: the loop has ended over an index of several tuples, two of them unlike.
GridDataWitness ==
    /\ notebook = 3
    /\ pc = Idx(3, "load_amr_grids")
    /\ Len(grid_data) > 1
    /\ grid_data[1] # grid_data[2]

\* C7: im2 is rendered with tfh.tf and im3 with tfh2.tf, the transfer functions last
\* passed to source.set_transfer_function, and neither with the transfer function
\* volume_render made.
RenderUsesTransferFunctionSet ==
    notebook = 1 =>
        /\ im2 # 0 => /\ rendered[im2].tf = helpers[tfh].tf
                      /\ rendered[im2].tf # 0
                      /\ rendered[im2].tf # rendered[im].tf
        /\ im3 # 0 => /\ rendered[im3].tf = helpers[tfh2].tf
                      /\ rendered[im3].tf # 0
                      /\ rendered[im3].tf # rendered[im].tf
                      /\ rendered[im3].tf # rendered[im2].tf

\* C7 witness: both images have been rendered.
RenderWitness == notebook = 1 /\ im2 # 0 /\ im3 # 0 /\ Done

Unscaled(c) == [c EXCEPT !.scale = 0]

\* C8: tfh2 gets the calls tfh got, with the same arguments but for the scale of the
\* map_to_colormap calls; where tfh2.tf is red (mapped with scale 5.0) its alpha is
\* 5 times that of tfh.tf, and where it is blue (scale 1.0) its alpha is that of tfh.tf.
RedPortionScaled ==
    notebook = 1 /\ tfh2 # 0 =>
        LET h1 == helpers[tfh]
            h2 == helpers[tfh2]
            t1 == tfs[h1.tf]
            t2 == tfs[h2.tf]
        IN  /\ Len(h1.hist) = Len(h2.hist)
            /\ \A k \in 1 .. Len(h1.hist) :
                  /\ Unscaled(h1.hist[k]) = Unscaled(h2.hist[k])
                  /\ h1.hist[k] # h2.hist[k] => h1.hist[k].m = "tf.map_to_colormap"
            /\ h1.tf # h2.tf
            /\ t1.lo = t2.lo /\ t1.hi = t2.hi
            /\ \A b \in t2.lo .. t2.hi :
                  /\ t2.cmap[b] = t1.cmap[b]
                  /\ t2.cmap[b] = "Reds" => t2.alpha[b] = 5 * t1.alpha[b] /\ t1.alpha[b] > 0
                  /\ t2.cmap[b] = "Blues_r" => t2.alpha[b] = t1.alpha[b]

\* C8 witness: tfh2 is configured and its transfer function has a red and a blue part.
RedPortionWitness ==
    /\ notebook = 1
    /\ tfh2 # 0
    /\ \E b, d \in tfs[helpers[tfh2].tf].lo .. tfs[helpers[tfh2].tf].hi :
          /\ tfs[helpers[tfh2].tf].cmap[b] = "Reds"
          /\ tfs[helpers[tfh2].tf].cmap[d] = "Blues_r"

\* C9: each pz.show() displays the plot bound to pz at that moment: the first the
\* projection of ("gas", "H_density"), the second that of ("gas", "H_p0_density"), both
\* along "z" and of the one dataset ds.
ProjectionsShownInOrder ==
    notebook = 2 =>
        /\ Len(displayed) <= 2
        /\ Past(2, "show_H") <=> Len(displayed) >= 1
        /\ Past(2, "show_H_p0") <=> Len(displayed) >= 2
        /\ pc = Idx(2, "show_H") + 1 \/ pc = Idx(2, "show_H_p0") + 1
              => displayed[Len(displayed)].plot = pz
        /\ \A k \in 1 .. Len(displayed) :
              /\ displayed[k].plot.axis = "z"
              /\ displayed[k].plot.ds = ds.id
              /\ ds.id # 0
        /\ Len(displayed) >= 1 => displayed[1].plot.field = <<"gas", "H_density">>
        /\ Len(displayed) >= 2 => displayed[2].plot.field = <<"gas", "H_p0_density">>

\* C9 witness: both projections have been shown.
ProjectionsWitness == notebook = 2 /\ Done /\ Len(displayed) = 2

Shown(a) == \E k \in 1 .. Len(displayed) : displayed[k].what = "image" /\ displayed[k].array = a

\* C10: once showme(<image>[:, :, :3]) has returned, no entry of the first three
\* channels of the image is NaN: those that were NaN are 0.0 and the others are as
\* rendered; the fourth channel and every other array are as rendered.
ShowmeScreensNaNsInPlace ==
    notebook = 1 =>
        \A a \in 1 .. Len(arrays) : \A px \in Pixels : \A c \in Channels :
            LET orig == rendered[a].orig[px][c]
                now == arrays[a][px][c]
            IN  IF Shown(a) /\ c <= 3
                  THEN /\ ~now.nan
                       /\ orig.nan => now = Num(0)
                       /\ ~orig.nan => now = orig
                  ELSE now = orig

\* C10 witness: showme has returned on im2 and on im3, which held a NaN in one of the
\* first three channels and in the fourth, and a number in another.
ShowmeWitness ==
    /\ notebook = 1
    /\ Done
    /\ Shown(im2) /\ Shown(im3)
    /\ \E px \in Pixels :
          /\ rendered[im2].orig[px][1].nan
          /\ rendered[im2].orig[px][4].nan
          /\ ~rendered[im2].orig[px][3].nan
          /\ arrays[im2][px][4].nan
          /\ rendered[im3].orig[px][1].nan

NewCallIds == (1 .. Len(fn_calls')) \ (1 .. Len(fn_calls))

Fresh(cs) == Configure([h |-> NewHelper(ds), tfs |-> << >>], cs)

\* The helper h and its transfer function are what the calls cs make of a new helper.
BuiltAfresh(h, cs) ==
    /\ h \in 1 .. Len(helpers)
    /\ [helpers[h] EXCEPT !.tf = 1] = Fresh(cs).h
    /\ helpers[h].tf \in 1 .. Len(tfs)
    /\ tfs[helpers[h].tf] = Fresh(cs).tfs[1]

\* Each helper, at every point of the run after its cell, is as built from nothing.
FreshHelpers ==
    notebook = 1 =>
        /\ Past(1, "tfh_new") =>
              /\ helpers[1] = NewHelper(ds)
              /\ \A k \in 1 .. Len(displayed) :
                    displayed[k].what = "transfer_function" => displayed[k].helper # 1
              /\ \A a \in 1 .. Len(rendered) : rendered[a].tf # 0
        /\ Past(1, "tfh_gauss") =>
              /\ tfh # 1
              /\ BuiltAfresh(2, TfhGaussCalls)
              /\ tfs[helpers[2].tf].nlayers = 5
        /\ Past(1, "tfh_hotcold") =>
              /\ tfh = 3
              /\ BuiltAfresh(3, TfhHotColdCalls)
              /\ helpers[3].tf # helpers[2].tf
              /\ tfs[helpers[3].tf].nlayers = 8
        /\ Past(1, "tfh2_scaled") =>
              /\ tfh2 = 4
              /\ BuiltAfresh(4, Tfh2Calls)
              /\ helpers[4].tf \notin {helpers[2].tf, helpers[3].tf}

\* No step changes a helper or a transfer function that exists, and once tfh is bound
\* for the last time neither making tfh2 nor setting tfh2.tf on the source rebinds it.
HelpersKept ==
    /\ \A h \in 1 .. Len(helpers) : h \in 1 .. Len(helpers') /\ helpers'[h] = helpers[h]
    /\ \A t \in 1 .. Len(tfs) : t \in 1 .. Len(tfs') /\ tfs'[t] = tfs[t]
    /\ Past(1, "tfh_hotcold") => tfh' = tfh

\* C12: every transfer function is built on a new TransferFunctionHelper: the helper
\* made alone is never configured, plotted or rendered with; the transfer function of
\* each later helper is what its own calls make of a new helper (the 5 layers of the
\* first tfh.tf are not in the second); and making and configuring tfh2 and setting
\* tfh2.tf on the source leave tfh and tfh.tf as they were.
ConfigurationNeverCarriesOver == [](FreshHelpers) /\ [][HelpersKept]_vars

\* C12 witness: the notebook has run: four helpers were made, tfh is the third, tfh2 the
\* fourth, and the source holds tfh2.tf after having held tfh.tf.
FreshHelpersWitness ==
    /\ notebook = 1
    /\ Done
    /\ Len(helpers) = 4
    /\ tfh = 3 /\ tfh2 = 4
    /\ sc.tf = helpers[tfh2].tf
    /\ rendered[im2].tf = helpers[tfh].tf
    /\ tfs[helpers[2].tf].nlayers = 5
    /\ tfs[helpers[tfh].tf] # tfs[helpers[tfh2].tf]

=============================================================================
